---- MODULE Spec2Model ----
(***************************************************************************)
(* Organization lifecycle manager of the multi-tenant organization API:    *)
(* OrganizationService (create / update-rename / delete) and AuthService   *)
(* (login) over the OrganizationRepository (master collection              *)
(* "organizations") and the per-organization admin collections, stepped at *)
(* the granularity of the individual store calls (every "await" of the     *)
(* service code).                                                          *)
(***************************************************************************)
EXTENDS Integers, Sequences, FiniteSets, TLC

(***************************************************************************)
(* Bounds of the model.                                                    *)
(***************************************************************************)
\* number of service calls of the first worker that get to their first write in
\* one behaviour: when the calls run one at a time, and when the call of the
\* second worker overlaps them
MaxTime == 3
MaxConcTime == 2
\* number of store calls that may raise an injected exception
MaxFailures == 1
\* length of the names _generate_collection_name is applied to on its own
MaxNameLen == 3

\* the request workers; the sequential specification uses the first only
Procs == {1, 2}
SeqProcs == {1}

(***************************************************************************)
(* Names are sequences of one-character strings.                           *)
(***************************************************************************)
\* organization names the requests carry
Names == { <<"a">>, <<"a", " ", "b">>, <<"A", " ", "b">>, <<"a", "-", "b">> }
\* admin e-mail addresses the create requests carry: "acb@c.ab" and "a.b@c.ab"
Emails ==
  { <<"a", "c", "b", "@", "c", ".", "a", "b">>,
    <<"a", ".", "b", "@", "c", ".", "a", "b">> }
Passwords == {"p1"}
\* the characters of the names _generate_collection_name is applied to on its
\* own: a letter in both cases, a digit, the separators the validator lets
\* through, the underscore and a character the validator refuses
SanitizeAlphabet == {"a", "A", "1", " ", "-", "_", "."}
\* the name 'Acme Corp'
AcmeCorp == <<"A", "c", "m", "e", " ", "C", "o", "r", "p">>
SanitizeInputs ==
  UNION { [1..n -> SanitizeAlphabet] : n \in 0..MaxNameLen } \cup {AcmeCorp}
\* e-mail addresses and passwords the login requests carry: those of the create
\* requests, the first address in upper case, and a password no admin has
LoginEmails == Emails \cup { <<"A", "C", "B", "@", "c", ".", "a", "b">> }
LoginPasswords == Passwords \cup {"p2"}
\* values of a patched description
Descriptions == {"d1"}

\* Python None for a string field, for an id and for a datetime
NoStr == "None"
NoName == << >>
NoId == 0
NoTime == 0

\* a path parameter that is no 24-digit hexadecimal string: ObjectId(org_id)
\* raises bson.errors.InvalidId
MalformedOrgId == -1

(***************************************************************************)
(* String helpers of the name handling.                                    *)
(***************************************************************************)
\* str.lower() on one character
LowerChar(c) ==
  CASE c = "A" -> "a"
    [] c = "B" -> "b"
    [] c = "C" -> "c"
    [] OTHER -> c

\* str.lower()
lower(s) == [i \in 1..Len(s) |-> LowerChar(s[i])]

\* str.strip(chars): drop leading and trailing characters of the set
RECURSIVE lstrip(_, _)
lstrip(s, chars) ==
  IF s # << >> /\ Head(s) \in chars THEN lstrip(Tail(s), chars) ELSE s

RECURSIVE rstrip(_, _)
rstrip(s, chars) ==
  IF s # << >> /\ s[Len(s)] \in chars
    THEN rstrip(SubSeq(s, 1, Len(s) - 1), chars)
    ELSE s

strip(s, chars) == rstrip(lstrip(s, chars), chars)

Whitespace == {" "}

\* the characters the pattern [^a-z0-9_] leaves alone
KeyChars == {"a", "b", "c", "e", "m", "o", "p", "r", "0", "1", "_"}

\* a faulty variant of sub_non_key: the hyphen is left alone, [^a-z0-9_-]
sub_non_key_keeps_hyphen(s) ==
  [i \in 1..Len(s) |-> IF s[i] \in KeyChars \cup {"-"} THEN s[i] ELSE "_"]

\* re.sub(r'[^a-z0-9_]', '_', s)
sub_non_key(s) == [i \in 1..Len(s) |-> IF s[i] \in KeyChars THEN s[i] ELSE "_"]

\* re.sub(r'_+', '_', s)
RECURSIVE sub_underscores(_)
sub_underscores(s) ==
  IF Len(s) < 2 THEN s
  ELSE IF s[1] = "_" /\ s[2] = "_" THEN sub_underscores(Tail(s))
  ELSE <<s[1]>> \o sub_underscores(Tail(s))

\* OrganizationService._generate_collection_name
generate_collection_name(org_name) ==
  <<"o", "r", "g", "_">> \o
    strip(sub_underscores(sub_non_key(strip(lower(org_name), Whitespace))), {"_"})

\* hash_password / verify_password of the credential collaborator
hash_password(password) == <<"hash", password>>
verify_password(password, hashed) == hashed = hash_password(password)


(***************************************************************************)
(* State.                                                                  *)
(***************************************************************************)
VARIABLES
  organizations,  \* the master collection "organizations", in insertion order
  collections,    \* the dynamic collections: name -> set of admin documents
  next_oid,       \* the next ObjectId the store generates
  now,            \* datetime.utcnow(), one tick per service call that writes
  failures,       \* store calls that raised an injected exception so far
  pc,             \* per worker: the store call its service call is about to make
  loc,            \* per worker: the local variables of its service call
  result,         \* per worker: the HTTP response of its service call
  snap,           \* per worker: the store as it was when its call started
  workers         \* the workers that take requests

vars ==
  <<organizations, collections, next_oid, now, failures, pc, loc, result, snap,
    workers>>

\* organization_repo / find_one returning None
NoneOrg ==
  [id |-> NoId, name |-> NoName, description |-> NoStr, collection_name |-> NoName,
   admin_id |-> NoId, created_at |-> NoTime, updated_at |-> NoTime,
   is_deleted |-> FALSE, deleted_at |-> NoTime, deleted_by |-> NoId]

\* admin_repo / find_one returning None
NoneAdmin ==
  [id |-> NoId, email |-> NoName, hashed_password |-> <<"hash", NoStr>>,
   organization_id |-> NoId]

\* model_dump(exclude_unset=True) of an OrganizationUpdate with nothing set
NoUpdate ==
  [name |-> NoName, description |-> NoStr, collection_name |-> NoName,
   admin_id |-> NoId]

\* the local variables of a service call before it starts
NoLoc ==
  [op |-> "none", name |-> NoName, email |-> NoName, password |-> NoStr,
   org_id |-> NoId, admin_id |-> NoId, update_data |-> NoUpdate,
   organization |-> NoneOrg, admin |-> NoneAdmin, collection_name |-> NoName,
   new_collection_name |-> NoName, old_collection_name |-> NoName,
   organizations |-> << >>, exc |-> "none", rollback_exc |-> "none"]

\* no JWT payload
NoToken == [sub |-> NoId, admin_id |-> NoId, organization_id |-> NoId, email |-> NoName]

\* no response yet
NoResult ==
  [status |-> 0, detail |-> "none", organization |-> NoneOrg,
   organization_id |-> NoId, deleted_by |-> NoId, audit_retained |-> FALSE,
   admin_id |-> NoId, access_token |-> NoToken, cause |-> "none",
   rollback_cause |-> "none"]

\* the store before any call
NoCollections == [n \in {} |-> {}]
NoSnap == [organizations |-> << >>, collections |-> NoCollections, now |-> 0]

(***************************************************************************)
(* Name validation of the request models.                                  *)
(***************************************************************************)
\* str.isalnum() on one character
IsAlnumChar(c) ==
  c \in {"a", "b", "c", "e", "m", "o", "p", "r", "A", "B", "C", "0", "1"}

\* v.replace('_', '').replace('-', '').replace(' ', '').isalnum()
name_is_valid(v) ==
  LET rest == SelectSeq(v, LAMBDA c : c \notin {"_", "-", " "})
  IN  rest # << >> /\ \A i \in 1..Len(rest) : IsAlnumChar(rest[i])

\* OrganizationBase.validate_name: the value the service receives
validate_name(v) == strip(v, Whitespace)

\* the names that pass validation, as the service receives them
ValidNames == { validate_name(n) : n \in { m \in Names : name_is_valid(m) } }

(***************************************************************************)
(* OrganizationRepository over the master collection.                      *)
(***************************************************************************)
\* the first document of a sequence, or None
FirstOrNone(docs) == IF docs = << >> THEN NoneOrg ELSE Head(docs)

\* a faulty variant of name_matches: the "i" option is missing
name_matches_case_sensitive(stored, name) == stored = name

\* {"name": {"$regex": f"^{name}$", "$options": "i"}}
name_matches(stored, name) == lower(stored) = lower(name)

\* a faulty variant of not_deleted_query: "is_deleted": False is missing
any_state_query(o, org_id) == o.id = org_id

\* the query {"_id": ObjectId(org_id), "is_deleted": False}
not_deleted_query(o, org_id) == o.id = org_id /\ ~o.is_deleted

\* OrganizationRepository.find_by_id
find_by_id(org_id, include_deleted) ==
  FirstOrNone(SelectSeq(organizations,
    LAMBDA o : IF include_deleted THEN o.id = org_id
                                  ELSE not_deleted_query(o, org_id)))

\* a faulty variant of find_by_name: "is_deleted": False is always in the query
find_by_name_active_only(name, include_deleted) ==
  FirstOrNone(SelectSeq(organizations,
    LAMBDA o : name_matches(o.name, name) /\ ~o.is_deleted))

\* OrganizationRepository.find_by_name
find_by_name(name, include_deleted) ==
  FirstOrNone(SelectSeq(organizations,
    LAMBDA o : name_matches(o.name, name) /\ (include_deleted \/ ~o.is_deleted)))

\* OrganizationRepository.find_all: cursor.skip(skip).limit(limit)
find_all(skip, limit, include_deleted) ==
  LET found == SelectSeq(organizations, LAMBDA o : include_deleted \/ ~o.is_deleted)
      last  == IF skip + limit < Len(found) THEN skip + limit ELSE Len(found)
  IN  SubSeq(found, skip + 1, last)

\* OrganizationRepository.create: the inserted document
created_org(org_data, oid, t) ==
  [id |-> oid, name |-> org_data.name, description |-> org_data.description,
   collection_name |-> org_data.collection_name, admin_id |-> org_data.admin_id,
   created_at |-> t, updated_at |-> t,
   is_deleted |-> FALSE, deleted_at |-> NoTime, deleted_by |-> NoId]

\* {"$set": update_data} on one document
set_fields(o, update_data, t) ==
  [o EXCEPT
     !.name = IF update_data.name # NoName THEN update_data.name ELSE @,
     !.description =
        IF update_data.description # NoStr THEN update_data.description ELSE @,
     !.collection_name =
        IF update_data.collection_name # NoName THEN update_data.collection_name ELSE @,
     !.admin_id = IF update_data.admin_id # NoId THEN update_data.admin_id ELSE @,
     !.updated_at = t]

\* a faulty variant of org_update: the filter is {"_id": ObjectId(org_id)} only
org_update_any_state(org_id, update_data, t) ==
  [i \in 1..Len(organizations) |->
     IF organizations[i].id = org_id
       THEN set_fields(organizations[i], update_data, t)
       ELSE organizations[i]]

\* OrganizationRepository.update: the collection after find_one_and_update
org_update(org_id, update_data, t) ==
  [i \in 1..Len(organizations) |->
     IF not_deleted_query(organizations[i], org_id)
       THEN set_fields(organizations[i], update_data, t)
       ELSE organizations[i]]

\* OrganizationRepository.update: the document it returns
org_updated(org_id, update_data, t) ==
  LET o == find_by_id(org_id, FALSE)
  IN  IF o.id = NoId THEN NoneOrg ELSE set_fields(o, update_data, t)

\* a faulty variant of soft_delete: the audit fields are not written
soft_delete_no_audit(org_id, deleted_by, t) ==
  [i \in 1..Len(organizations) |->
     IF not_deleted_query(organizations[i], org_id)
       THEN [organizations[i] EXCEPT !.is_deleted = TRUE, !.updated_at = t]
       ELSE organizations[i]]

\* OrganizationRepository.soft_delete: the collection after update_one
soft_delete(org_id, deleted_by, t) ==
  [i \in 1..Len(organizations) |->
     IF not_deleted_query(organizations[i], org_id)
       THEN [organizations[i] EXCEPT !.is_deleted = TRUE, !.deleted_at = t,
                                     !.deleted_by = deleted_by, !.updated_at = t]
       ELSE organizations[i]]

\* a faulty variant of soft_delete_modified: the count is not looked at
soft_delete_modified_always(org_id) == TRUE

\* OrganizationRepository.soft_delete: result.modified_count > 0
soft_delete_modified(org_id) == find_by_id(org_id, FALSE).id # NoId

\* a faulty variant of hard_delete: the document is archived instead of removed
hard_delete_archives(org_id) ==
  [i \in 1..Len(organizations) |->
     IF organizations[i].id = org_id
       THEN [organizations[i] EXCEPT !.is_deleted = TRUE]
       ELSE organizations[i]]

\* OrganizationRepository.hard_delete: the collection after delete_one
hard_delete(org_id) == SelectSeq(organizations, LAMBDA o : o.id # org_id)

(***************************************************************************)
(* The dynamic collections (db[name], list/drop).                          *)
(***************************************************************************)
\* db.list_collection_names(), the dynamic collections only
list_collection_names == DOMAIN collections

\* the documents of db[name]; a collection nobody inserted into is empty
documents(name) == IF name \in DOMAIN collections THEN collections[name] ELSE {}

\* collection.insert_one / insert of several documents: creates the collection
insert_docs(name, docs) ==
  IF docs = {} THEN collections
  ELSE [n \in DOMAIN collections \cup {name} |->
          IF n = name THEN documents(name) \cup docs ELSE collections[n]]

\* a faulty variant of drop_collection: the collection stays
drop_collection_keeps(name) == collections

\* db.drop_collection(name): no error when the collection does not exist
drop_collection(name) ==
  [n \in DOMAIN collections \ {name} |-> collections[n]]

\* the _id values of a set of documents
doc_ids(docs) == { d.id : d \in docs }

(***************************************************************************)
(* AdminRepository over one dynamic collection.                            *)
(***************************************************************************)
\* {"email": {"$regex": f"^{email}$", "$options": "i"}}: the address is the
\* pattern, unescaped, so its "." matches any character
email_matches(stored, email) ==
  /\ Len(stored) = Len(email)
  /\ \A i \in 1..Len(email) :
       email[i] = "." \/ LowerChar(email[i]) = LowerChar(stored[i])

\* AdminRepository.find_by_email: the documents find_one can return
find_by_email(collection_name, email) ==
  { d \in documents(collection_name) : email_matches(d.email, email) }


(***************************************************************************)
(* Responses of the HTTP layer.                                            *)
(***************************************************************************)
\* an HTTPException raised by the service, or a success without a body
Response(status, detail) == [NoResult EXCEPT !.status = status, !.detail = detail]

\* success_response(data=OrganizationResponse(**organization.model_dump())): the
\* router raises AttributeError when the service returned None
OrganizationResponse(status, organization) ==
  IF organization.id = NoId
    THEN Response(500, "Internal Server Error")
    ELSE [NoResult EXCEPT !.status = status, !.detail = "success",
                          !.organization = organization]

\* an exception that is no HTTPException leaves the service
Unhandled == Response(500, "Internal Server Error")

\* an injected store failure is still allowed
CanFail == failures < MaxFailures

\* the call of worker p ends with response r
Return(p, r) ==
  /\ pc' = [pc EXCEPT ![p] = "done"]
  /\ result' = [result EXCEPT ![p] = r]
  /\ UNCHANGED workers

\* the call of worker p goes on with the store call at label l
Goto(p, l) ==
  /\ pc' = [pc EXCEPT ![p] = l]
  /\ UNCHANGED <<result, workers>>

Init ==
  /\ organizations = << >>
  /\ collections = NoCollections
  /\ next_oid = 1
  /\ now = 0
  /\ failures = 0
  /\ pc = [p \in Procs |-> "idle"]
  /\ loc = [p \in Procs |-> NoLoc]
  /\ result = [p \in Procs |-> NoResult]
  /\ snap = [p \in Procs |-> NoSnap]
  /\ workers = SeqProcs

\* the first store call of a call continues at label l: no response yet
Enter(p, l) ==
  /\ pc' = [pc EXCEPT ![p] = l]
  /\ result' = [result EXCEPT ![p] = NoResult]
  /\ UNCHANGED workers

\* worker p takes requests and is free, and the last request of the behaviour,
\* the one the second worker serves, has not arrived yet.  A call that returned
\* before its first write (a refusal, a login) is the last call of its worker:
\* it left nothing that a later call reads, so the behaviours that go on after
\* it reach only states that the behaviours without it reach
Admits(p) ==
  /\ p \in workers
  /\ pc[p] = "idle" \/ (pc[p] = "done" /\ now > snap[p].now)
  /\ pc[2] = "idle"

\* the clock the writes of a call read: it ticks when the call has passed its
\* checks and goes on to its first write
Tick(p) ==
  /\ p \in SeqProcs => now < (IF workers = SeqProcs THEN MaxTime ELSE MaxConcTime)
  /\ now' = now + 1

\* worker p takes the next request: the call starts with local variables l
\* (a field of the request is drawn where the call first reads it)
Begin(p, l) ==
  /\ Admits(p)
  /\ loc' = [loc EXCEPT ![p] = l]
  /\ snap' = [snap EXCEPT ![p] =
                [organizations |-> organizations, collections |-> collections,
                 now |-> now]]

(***************************************************************************)
(* OrganizationService.create_organization                                 *)
(***************************************************************************)
\* POST /organizations with a validated OrganizationCreate; the name check:
\* find_by_name(name, include_deleted=True)
CreateFindByName(p) ==
  /\ \E name \in ValidNames :
       /\ Begin(p, [NoLoc EXCEPT !.op = "create", !.name = name])
       /\ LET existing_org == find_by_name(name, TRUE)
          IN  IF existing_org.id # NoId
                THEN IF existing_org.is_deleted
                       THEN Return(p, Response(409, "name archived"))
                       ELSE Return(p, Response(409, "name exists"))
                ELSE Enter(p, "create_list_collections")
  /\ UNCHANGED <<organizations, collections, next_oid, now, failures>>

\* a faulty variant of CreateListCollections: the collection check is missing
CreateListCollectionsUnchecked(p) ==
  /\ pc[p] = "create_list_collections"
  /\ Goto(p, "create_org_insert")
  /\ loc' = [loc EXCEPT ![p].collection_name = generate_collection_name(loc[p].name)]
  /\ Tick(p)
  /\ UNCHANGED <<organizations, collections, next_oid, failures, snap>>

\* the collection check: collection_name in list_collection_names()
CreateListCollections(p) ==
  /\ pc[p] = "create_list_collections"
  /\ LET collection_name == generate_collection_name(loc[p].name)
     IN  IF collection_name \in list_collection_names
           THEN /\ Return(p, Response(409, "collection exists"))
                /\ UNCHANGED <<loc, now>>
           ELSE /\ Goto(p, "create_org_insert")
                /\ loc' = [loc EXCEPT ![p].collection_name = collection_name]
                /\ Tick(p)
  /\ UNCHANGED <<organizations, collections, next_oid, failures, snap>>

\* step 1: org_repo.create(org_data); when it raises, the handler reads the
\* unassigned local "organization" and the UnboundLocalError leaves the service
CreateOrgInsert(p) ==
  /\ pc[p] = "create_org_insert"
  /\ \/ LET organization ==
              created_org([name |-> loc[p].name, description |-> NoStr,
                           collection_name |-> loc[p].collection_name,
                           admin_id |-> NoId], next_oid, now)
        IN  /\ organizations' = Append(organizations, organization)
            /\ next_oid' = next_oid + 1
            /\ loc' = [loc EXCEPT ![p].organization = organization]
            /\ Goto(p, "create_admin_insert")
            /\ UNCHANGED failures
     \/ /\ CanFail
        /\ failures' = failures + 1
        /\ loc' = [loc EXCEPT ![p].exc = "org_repo.create",
                              ![p].rollback_exc = "UnboundLocalError"]
        /\ Return(p, Unhandled)
        /\ UNCHANGED <<organizations, next_oid>>
  /\ UNCHANGED <<collections, now, snap>>

\* step 2: AdminRepository(db, collection_name).create(admin_data), with the
\* admin_email and the admin_password of the request, which are read here
CreateAdminInsertWith(p, passwords) ==
  /\ pc[p] = "create_admin_insert"
  /\ \/ \E email \in Emails, password \in passwords :
          LET admin == [id |-> next_oid, email |-> email,
                        hashed_password |-> hash_password(password),
                        organization_id |-> loc[p].organization.id]
          IN  /\ collections' = insert_docs(loc[p].collection_name, {admin})
              /\ next_oid' = next_oid + 1
              /\ loc' = [loc EXCEPT ![p].admin = admin, ![p].email = email,
                                    ![p].password = password]
              /\ Goto(p, "create_backfill")
              /\ UNCHANGED failures
     \/ /\ CanFail
        /\ failures' = failures + 1
        /\ loc' = [loc EXCEPT ![p].exc = "admin_repo.create"]
        /\ Goto(p, "create_rollback_hard_delete")
        /\ UNCHANGED <<collections, next_oid>>
  /\ UNCHANGED <<organizations, now, snap>>

\* step 2 of a create request with the password of the create requests
CreateAdminInsert(p) == CreateAdminInsertWith(p, Passwords)

\* step 2 of a create request with either of the passwords the logins try
CreateAdminInsertAnyPassword(p) == CreateAdminInsertWith(p, LoginPasswords)

\* a faulty variant of CreateBackfill: the organization is returned as it was created
CreateBackfillSkipped(p) ==
  /\ pc[p] = "create_backfill"
  /\ Return(p, OrganizationResponse(201, loc[p].organization))
  /\ UNCHANGED <<organizations, collections, next_oid, now, failures, loc, snap>>

\* step 3: org_repo.update(organization.id, {"admin_id": admin.id}) and return
CreateBackfill(p) ==
  /\ pc[p] = "create_backfill"
  /\ \/ LET update_data == [NoUpdate EXCEPT !.admin_id = loc[p].admin.id]
            organization == org_updated(loc[p].organization.id, update_data, now)
        IN  /\ organizations' = org_update(loc[p].organization.id, update_data, now)
            /\ loc' = [loc EXCEPT ![p].organization = organization]
            /\ Return(p, OrganizationResponse(201, organization))
            /\ UNCHANGED failures
     \/ /\ CanFail
        /\ failures' = failures + 1
        /\ loc' = [loc EXCEPT ![p].exc = "org_repo.update"]
        /\ Goto(p, "create_rollback_hard_delete")
        /\ UNCHANGED organizations
  /\ UNCHANGED <<collections, next_oid, now, snap>>

\* rollback: org_repo.hard_delete(organization.id)
CreateRollbackHardDelete(p) ==
  /\ pc[p] = "create_rollback_hard_delete"
  /\ \/ /\ organizations' = hard_delete(loc[p].organization.id)
        /\ Goto(p, "create_rollback_list")
        /\ UNCHANGED <<failures, loc>>
     \/ /\ CanFail
        /\ failures' = failures + 1
        /\ loc' = [loc EXCEPT ![p].rollback_exc = "org_repo.hard_delete"]
        /\ Return(p, Unhandled)
        /\ UNCHANGED organizations
  /\ UNCHANGED <<collections, next_oid, now, snap>>

\* the HTTPException of the except block of create_organization
CreateFailed == Response(500, "Failed to create organization")

\* detail=f"...: {str(e)}": the HTTPException with the exception it caught
WithCause(response, e) == [response EXCEPT !.cause = e]

\* rollback: collection_name in list_collection_names()
CreateRollbackList(p) ==
  /\ pc[p] = "create_rollback_list"
  /\ \/ /\ IF loc[p].collection_name \in list_collection_names
             THEN Goto(p, "create_rollback_drop")
             ELSE Return(p, WithCause(CreateFailed, loc[p].exc))
        /\ UNCHANGED <<failures, loc>>
     \/ /\ CanFail
        /\ failures' = failures + 1
        /\ loc' = [loc EXCEPT ![p].rollback_exc = "list_collection_names"]
        /\ Return(p, Unhandled)
  /\ UNCHANGED <<organizations, collections, next_oid, now, snap>>

\* rollback: db.drop_collection(collection_name), then the HTTPException
CreateRollbackDrop(p) ==
  /\ pc[p] = "create_rollback_drop"
  /\ \/ /\ collections' = drop_collection(loc[p].collection_name)
        /\ Return(p, WithCause(CreateFailed, loc[p].exc))
        /\ UNCHANGED <<failures, loc>>
     \/ /\ CanFail
        /\ failures' = failures + 1
        /\ loc' = [loc EXCEPT ![p].rollback_exc = "drop_collection"]
        /\ Return(p, Unhandled)
        /\ UNCHANGED collections
  /\ UNCHANGED <<organizations, next_oid, now, snap>>


(***************************************************************************)
(* OrganizationService.get_organization / list_organizations               *)
(***************************************************************************)
\* get_organization: the organization, or None where the code raises 404
get_organization(org_id) == find_by_id(org_id, FALSE)

\* list_organizations(skip, limit)
list_organizations(skip, limit) == find_all(skip, limit, FALSE)

\* the admin ids a bearer token can carry: those of the admins created so far
TokenAdminIds ==
  { organizations[i].admin_id : i \in 1..Len(organizations) } \ {NoId}

\* ObjectId(org_id) does not raise
is_valid_object_id(org_id) == org_id >= 1

\* the organization ids a request path can name: those of the documents, a
\* well-formed id no document has and a malformed one
PathOrgIds ==
  { organizations[i].id : i \in 1..Len(organizations) } \cup {next_oid, MalformedOrgId}

\* a faulty variant of is_rename: the name is not compared with the current one
is_rename_any_name(update_data, organization) == update_data.name # NoName

\* "name" in update_data and update_data["name"] != organization.name
is_rename(update_data, organization) ==
  update_data.name # NoName /\ update_data.name # organization.name

(***************************************************************************)
(* OrganizationService.update_organization                                 *)
(***************************************************************************)
\* PUT /organizations/{id} with a validated OrganizationUpdate: load, ownership
\* check and the choice between rename and simple update
UpdateGet(p) ==
  /\ TokenAdminIds # {}
  /\ \E org_id \in PathOrgIds :
       LET organization == get_organization(org_id)
           request == [NoLoc EXCEPT !.op = "update", !.org_id = org_id]
       IN  IF ~is_valid_object_id(org_id)
             THEN Begin(p, request) /\ Return(p, Unhandled) /\ UNCHANGED now
           ELSE IF organization.id = NoId
             THEN /\ Begin(p, request)
                  /\ Return(p, Response(404, "Organization not found"))
                  /\ UNCHANGED now
           ELSE \E admin_id \in TokenAdminIds :
             IF organization.admin_id # admin_id
               THEN /\ Begin(p, [request EXCEPT !.admin_id = admin_id,
                                                !.organization = organization])
                    /\ Return(p, Response(403, "Not authorized"))
                    /\ UNCHANGED now
               ELSE \E name \in ValidNames \cup {NoName} :
                      LET named == [NoUpdate EXCEPT !.name = name]
                          owned == [request EXCEPT !.admin_id = admin_id,
                                                   !.organization = organization]
                      IN  IF is_rename(named, organization)
                            THEN /\ Begin(p, [owned EXCEPT !.update_data = named])
                                 /\ Enter(p, "update_find_by_name")
                                 /\ UNCHANGED now
                            ELSE \E description \in Descriptions \cup {NoStr} :
                                   /\ Begin(p, [owned EXCEPT !.update_data =
                                        [named EXCEPT !.description = description]])
                                   /\ Enter(p, "update_simple")
                                   /\ Tick(p)
  /\ UNCHANGED <<organizations, collections, next_oid, failures>>

\* a faulty variant of UpdateFindByName: the name check is missing
UpdateFindByNameUnchecked(p) ==
  /\ pc[p] = "update_find_by_name"
  /\ loc' = [loc EXCEPT
               ![p].new_collection_name =
                  generate_collection_name(loc[p].update_data.name),
               ![p].old_collection_name = loc[p].organization.collection_name]
  /\ Goto(p, "update_copy")
  /\ Tick(p)
  /\ UNCHANGED <<organizations, collections, next_oid, failures, snap>>

\* rename: the new name must not be held by another organization
UpdateFindByName(p) ==
  /\ pc[p] = "update_find_by_name"
  /\ LET new_name == loc[p].update_data.name
         existing_org == find_by_name(new_name, TRUE)
     IN  IF existing_org.id # NoId /\ existing_org.id # loc[p].org_id
           THEN /\ Return(p, Response(409, "name exists"))
                /\ UNCHANGED <<loc, now>>
           ELSE /\ loc' = [loc EXCEPT
                            ![p].new_collection_name = generate_collection_name(new_name),
                            ![p].old_collection_name = loc[p].organization.collection_name]
                /\ Goto(p, "update_copy")
                /\ Tick(p)
  /\ UNCHANGED <<organizations, collections, next_oid, failures, snap>>

\* a faulty variant of UpdateCopy: source and target of the copy are swapped
UpdateCopySwapped(p) ==
  /\ pc[p] = "update_copy"
  /\ collections' = insert_docs(loc[p].old_collection_name,
                                documents(loc[p].new_collection_name)
                                  \ documents(loc[p].old_collection_name))
  /\ Goto(p, "update_metadata")
  /\ UNCHANGED <<organizations, next_oid, now, failures, loc, snap>>

\* rename: async for document in old_collection.find(): new_collection.insert_one
\* (insert_one raises DuplicateKeyError on a document whose _id is in the target)
UpdateCopy(p) ==
  /\ pc[p] = "update_copy"
  /\ LET old == documents(loc[p].old_collection_name)
         new == documents(loc[p].new_collection_name)
         duplicates == { d \in old : d.id \in doc_ids(new) }
     IN  \/ /\ duplicates = {}
            /\ collections' = insert_docs(loc[p].new_collection_name, old)
            /\ Goto(p, "update_metadata")
            /\ UNCHANGED <<failures, loc>>
         \/ /\ duplicates # {}
            /\ \E copied \in SUBSET (old \ duplicates) :
                 collections' = insert_docs(loc[p].new_collection_name, copied)
            /\ loc' = [loc EXCEPT ![p].exc = "DuplicateKeyError"]
            /\ Goto(p, "update_rollback_list")
            /\ UNCHANGED failures
         \/ /\ duplicates = {}
            /\ CanFail
            /\ failures' = failures + 1
            /\ \E copied \in SUBSET old :
                 collections' = insert_docs(loc[p].new_collection_name, copied)
            /\ loc' = [loc EXCEPT ![p].exc = "insert_one"]
            /\ Goto(p, "update_rollback_list")
  /\ UNCHANGED <<organizations, next_oid, now, snap>>

\* rename: org_repo.update(org_id, update_data) with the new collection_name
\* (the description of the patch is first read by this write)
UpdateMetadata(p) ==
  /\ pc[p] = "update_metadata"
  /\ \/ \E description \in Descriptions \cup {NoStr} :
          LET update_data == [loc[p].update_data EXCEPT
                                !.description = description,
                                !.collection_name = loc[p].new_collection_name]
          IN  /\ organizations' = org_update(loc[p].org_id, update_data, now)
              /\ loc' = [loc EXCEPT
                           ![p].update_data = update_data,
                           ![p].organization = org_updated(loc[p].org_id, update_data, now)]
              /\ Goto(p, "update_drop_old")
              /\ UNCHANGED failures
     \/ /\ CanFail
        /\ failures' = failures + 1
        /\ loc' = [loc EXCEPT ![p].exc = "org_repo.update"]
        /\ Goto(p, "update_rollback_list")
        /\ UNCHANGED organizations
  /\ UNCHANGED <<collections, next_oid, now, snap>>

\* rename: db.drop_collection(old_collection_name) and return
UpdateDropOld(p) ==
  /\ pc[p] = "update_drop_old"
  /\ \/ /\ collections' = drop_collection(loc[p].old_collection_name)
        /\ Return(p, OrganizationResponse(200, loc[p].organization))
        /\ UNCHANGED <<failures, loc>>
     \/ /\ CanFail
        /\ failures' = failures + 1
        /\ loc' = [loc EXCEPT ![p].exc = "drop_collection"]
        /\ Goto(p, "update_rollback_list")
        /\ UNCHANGED collections
  /\ UNCHANGED <<organizations, next_oid, now, snap>>

\* the HTTPException of the except block of update_organization
MigrationFailed == Response(500, "Failed to migrate organization data")

\* rollback: new_collection_name in list_collection_names()
UpdateRollbackList(p) ==
  /\ pc[p] = "update_rollback_list"
  /\ \/ /\ IF loc[p].new_collection_name \in list_collection_names
             THEN Goto(p, "update_rollback_drop")
             ELSE Return(p, WithCause(MigrationFailed, loc[p].exc))
        /\ UNCHANGED <<failures, loc>>
     \/ /\ CanFail
        /\ failures' = failures + 1
        /\ loc' = [loc EXCEPT ![p].rollback_exc = "list_collection_names"]
        /\ Return(p, Unhandled)
  /\ UNCHANGED <<organizations, collections, next_oid, now, snap>>

\* rollback: db.drop_collection(new_collection_name), then the HTTPException
UpdateRollbackDrop(p) ==
  /\ pc[p] = "update_rollback_drop"
  /\ \/ /\ collections' = drop_collection(loc[p].new_collection_name)
        /\ Return(p, WithCause(MigrationFailed, loc[p].exc))
        /\ UNCHANGED <<failures, loc>>
     \/ /\ CanFail
        /\ failures' = failures + 1
        /\ loc' = [loc EXCEPT ![p].rollback_exc = "drop_collection"]
        /\ Return(p, Unhandled)
        /\ UNCHANGED collections
  /\ UNCHANGED <<organizations, next_oid, now, snap>>

\* simple update without migration: org_repo.update(org_id, update_data)
UpdateSimple(p) ==
  /\ pc[p] = "update_simple"
  /\ LET organization == org_updated(loc[p].org_id, loc[p].update_data, now)
     IN  /\ organizations' = org_update(loc[p].org_id, loc[p].update_data, now)
         /\ loc' = [loc EXCEPT ![p].organization = organization]
         /\ IF organization.id = NoId
              THEN Return(p, Response(404, "Organization not found"))
              ELSE Return(p, OrganizationResponse(200, organization))
  /\ UNCHANGED <<collections, next_oid, now, failures, snap>>

(***************************************************************************)
(* OrganizationService.delete_organization                                 *)
(***************************************************************************)
\* DELETE /organizations/{id}: load and ownership check
DeleteGet(p) ==
  /\ TokenAdminIds # {}
  /\ \E org_id \in PathOrgIds :
       LET organization == get_organization(org_id)
           request == [NoLoc EXCEPT !.op = "delete", !.org_id = org_id]
       IN  IF ~is_valid_object_id(org_id)
             THEN Begin(p, request) /\ Return(p, Unhandled) /\ UNCHANGED now
           ELSE IF organization.id = NoId
             THEN /\ Begin(p, request)
                  /\ Return(p, Response(404, "Organization not found"))
                  /\ UNCHANGED now
           ELSE \E admin_id \in TokenAdminIds :
                  /\ Begin(p, [request EXCEPT !.admin_id = admin_id,
                                              !.organization = organization])
                  /\ IF organization.admin_id # admin_id
                       THEN Return(p, Response(403, "Not authorized")) /\ UNCHANGED now
                       ELSE Enter(p, "delete_soft_delete") /\ Tick(p)
  /\ UNCHANGED <<organizations, collections, next_oid, failures>>

\* the HTTPException of the generic except block of delete_organization
DeleteFailed == Response(500, "Failed to delete organization")

\* step 1: org_repo.soft_delete(org_id, admin_id)
DeleteSoftDelete(p) ==
  /\ pc[p] = "delete_soft_delete"
  /\ \/ /\ organizations' = soft_delete(loc[p].org_id, loc[p].admin_id, now)
        /\ IF soft_delete_modified(loc[p].org_id)
             THEN Goto(p, "delete_list")
             ELSE Return(p, Response(404, "Organization not found or already deleted"))
        /\ UNCHANGED <<failures, loc>>
     \/ /\ CanFail
        /\ failures' = failures + 1
        /\ loc' = [loc EXCEPT ![p].exc = "org_repo.soft_delete"]
        /\ Return(p, WithCause(DeleteFailed, loc[p].exc))
        /\ UNCHANGED organizations
  /\ UNCHANGED <<collections, next_oid, now, snap>>

\* the dict delete_organization returns
DeleteResult(org_id, admin_id) ==
  [NoResult EXCEPT !.status = 200, !.detail = "Organization deleted successfully",
                   !.organization_id = org_id, !.deleted_by = admin_id,
                   !.audit_retained = TRUE]

\* step 2: collection_name in list_collection_names()
DeleteList(p) ==
  /\ pc[p] = "delete_list"
  /\ \/ /\ IF loc[p].organization.collection_name \in list_collection_names
             THEN Goto(p, "delete_drop")
             ELSE Return(p, DeleteResult(loc[p].org_id, loc[p].admin_id))
        /\ loc' = [loc EXCEPT ![p].collection_name = loc[p].organization.collection_name]
        /\ UNCHANGED failures
     \/ /\ CanFail
        /\ failures' = failures + 1
        /\ loc' = [loc EXCEPT ![p].exc = "list_collection_names"]
        /\ Return(p, WithCause(DeleteFailed, loc[p].exc))
  /\ UNCHANGED <<organizations, collections, next_oid, now, snap>>

\* step 2: db.drop_collection(collection_name) and return
DeleteDrop(p) ==
  /\ pc[p] = "delete_drop"
  /\ \/ /\ collections' = drop_collection(loc[p].collection_name)
        /\ Return(p, DeleteResult(loc[p].org_id, loc[p].admin_id))
        /\ UNCHANGED <<failures, loc>>
     \/ /\ CanFail
        /\ failures' = failures + 1
        /\ loc' = [loc EXCEPT ![p].exc = "drop_collection"]
        /\ Return(p, WithCause(DeleteFailed, loc[p].exc))
        /\ UNCHANGED collections
  /\ UNCHANGED <<organizations, next_oid, now, snap>>

(***************************************************************************)
(* AuthService.authenticate_admin                                          *)
(***************************************************************************)
\* the HTTPException for an unknown address and for a wrong password
IncorrectCredentials == Response(401, "Incorrect email or password")

\* the HTTPException for an admin document of another organization
OrganizationMismatch == Response(401, "Admin organization mismatch")

\* TokenResponse(access_token=create_access_token(token_data), ...)
TokenResponse(admin, org) ==
  [NoResult EXCEPT !.status = 200, !.detail = "Login successful",
                   !.admin_id = admin.id, !.organization_id = org.id,
                   !.access_token = [sub |-> admin.id, admin_id |-> admin.id,
                                     organization_id |-> org.id,
                                     email |-> admin.email]]

\* POST /auth/login with an AdminLogin: the active organizations to scan
AuthFindAll(p) ==
  /\ \E email \in LoginEmails :
       LET found == find_all(0, 1000, FALSE)
       IN  /\ Begin(p, [NoLoc EXCEPT !.op = "authenticate", !.email = email,
                                     !.organizations = found])
           /\ IF found = << >>
                THEN Return(p, IncorrectCredentials)
                ELSE Enter(p, "auth_find_by_email")
  /\ UNCHANGED <<organizations, collections, next_oid, now, failures>>

\* one turn of the loop: find_by_email in the collection of the next
\* organization, then the checks of the password of the request, which is
\* read here, and of the admin's organization
AuthFindByEmail(p) ==
  /\ pc[p] = "auth_find_by_email"
  /\ LET org == Head(loc[p].organizations)
         rest == Tail(loc[p].organizations)
         found == find_by_email(org.collection_name, loc[p].email)
     IN  \/ /\ found = {}
            /\ loc' = [loc EXCEPT ![p].organizations = rest]
            /\ IF rest = << >>
                 THEN Return(p, IncorrectCredentials)
                 ELSE Goto(p, "auth_find_by_email")
         \/ \E admin \in found, password \in LoginPasswords :
              /\ loc' = [loc EXCEPT ![p].admin = admin, ![p].organization = org,
                                    ![p].password = password]
              /\ IF ~verify_password(password, admin.hashed_password)
                   THEN Return(p, IncorrectCredentials)
                   ELSE IF admin.organization_id # org.id
                     THEN Return(p, OrganizationMismatch)
                     ELSE Return(p, TokenResponse(admin, org))
  /\ UNCHANGED <<organizations, collections, next_oid, now, failures, snap>>

(***************************************************************************)
(* The workers.                                                            *)
(***************************************************************************)
\* one step of the service call of worker p
Step(p) ==
    \/ CreateFindByName(p)
    \/ CreateListCollections(p)
    \/ CreateOrgInsert(p)
    \/ CreateAdminInsert(p)
    \/ CreateBackfill(p)
    \/ CreateRollbackHardDelete(p)
    \/ CreateRollbackList(p)
    \/ CreateRollbackDrop(p)
    \/ UpdateGet(p)
    \/ UpdateFindByName(p)
    \/ UpdateCopy(p)
    \/ UpdateMetadata(p)
    \/ UpdateDropOld(p)
    \/ UpdateRollbackList(p)
    \/ UpdateRollbackDrop(p)
    \/ UpdateSimple(p)
    \/ DeleteGet(p)
    \/ DeleteSoftDelete(p)
    \/ DeleteList(p)
    \/ DeleteDrop(p)
    \/ AuthFindAll(p)
    \/ AuthFindByEmail(p)

Next == \E p \in Procs : Step(p)

\* requests are served one at a time by the first worker: each completes before
\* the next starts
Spec == Init /\ [][Next]_vars

\* requests are served one at a time and the create requests carry either of
\* two passwords, so that two admins can have one address and two passwords
StepLogin(p) ==
    \/ CreateFindByName(p)
    \/ CreateListCollections(p)
    \/ CreateOrgInsert(p)
    \/ CreateAdminInsertAnyPassword(p)
    \/ CreateBackfill(p)
    \/ CreateRollbackHardDelete(p)
    \/ CreateRollbackList(p)
    \/ CreateRollbackDrop(p)
    \/ UpdateGet(p)
    \/ UpdateFindByName(p)
    \/ UpdateCopy(p)
    \/ UpdateMetadata(p)
    \/ UpdateDropOld(p)
    \/ UpdateRollbackList(p)
    \/ UpdateRollbackDrop(p)
    \/ UpdateSimple(p)
    \/ DeleteGet(p)
    \/ DeleteSoftDelete(p)
    \/ DeleteList(p)
    \/ DeleteDrop(p)
    \/ AuthFindAll(p)
    \/ AuthFindByEmail(p)

NextLogin == \E p \in Procs : StepLogin(p)

SpecLogin == Init /\ [][NextLogin]_vars

\* requests are served in parallel and interleave at the store calls: the first
\* worker serves a history of requests one after the other, the second worker
\* serves the last request to arrive, which overlaps, at any store call, the
\* request the first worker is serving
InitConc ==
  /\ organizations = << >>
  /\ collections = NoCollections
  /\ next_oid = 1
  /\ now = 0
  /\ failures = 0
  /\ pc = [p \in Procs |-> "idle"]
  /\ loc = [p \in Procs |-> NoLoc]
  /\ result = [p \in Procs |-> NoResult]
  /\ snap = [p \in Procs |-> NoSnap]
  /\ workers = Procs

SpecConc == InitConc /\ [][Next]_vars

\* _generate_collection_name on its own: the function is applied to one name
InitSanitize ==
  /\ organizations = << >>
  /\ collections = NoCollections
  /\ next_oid = 1
  /\ now = 0
  /\ failures = 0
  /\ pc = [p \in Procs |-> IF p \in SeqProcs THEN "sanitize" ELSE "idle"]
  /\ \E org_name \in SanitizeInputs :
       loc = [p \in Procs |-> IF p \in SeqProcs
                                THEN [NoLoc EXCEPT !.op = "sanitize",
                                                   !.name = org_name]
                                ELSE NoLoc]
  /\ result = [p \in Procs |-> NoResult]
  /\ snap = [p \in Procs |-> NoSnap]
  /\ workers = SeqProcs

Sanitize(p) ==
  /\ pc[p] = "sanitize"
  /\ loc' = [loc EXCEPT ![p].collection_name =
                          generate_collection_name(loc[p].name)]
  /\ pc' = [pc EXCEPT ![p] = "done"]
  /\ UNCHANGED <<organizations, collections, next_oid, now, failures, result,
                 snap, workers>>

NextSanitize == \E p \in SeqProcs : Sanitize(p)

SpecSanitize == InitSanitize /\ [][NextSanitize]_vars

(***************************************************************************)
(* Vocabulary of the properties.                                           *)
(***************************************************************************)
\* no call is in flight
Quiescent == \A p \in Procs : pc[p] \in {"idle", "done"}

\* positions of the organization documents, and of those not soft-deleted
OrgIndexes == 1..Len(organizations)
ActiveIndexes == { i \in OrgIndexes : ~organizations[i].is_deleted }

\* the call of worker p has returned: its kind and its status
Returned(p, op, status) ==
  pc[p] = "done" /\ loc[p].op = op /\ result[p].status = status

\* the organization document with the given id when the call of p started
snap_org(p, org_id) ==
  FirstOrNone(SelectSeq(snap[p].organizations, LAMBDA o : o.id = org_id))

\* the documents of a dynamic collection when the call of p started
snap_documents(p, name) ==
  IF name \in DOMAIN snap[p].collections THEN snap[p].collections[name] ELSE {}

\* the store is as it was when the call of p started
StoreUnchanged(p) ==
  organizations = snap[p].organizations /\ collections = snap[p].collections

\* two names are equal ignoring letter case
SameNameIgnoringCase(n, m) == lower(n) = lower(m)

(***************************************************************************)
(* C1.  Between calls that run one at a time, no two non-deleted           *)
(* organizations have the same collection_name (partition key).            *)
(* The code breaks it: a rename never checks that the new collection is    *)
(* free, so an organization can be renamed onto another one's collection.  *)
(***************************************************************************)
C1_UniquePartitionKey ==
  Quiescent =>
    \A i, j \in ActiveIndexes :
      i # j => organizations[i].collection_name # organizations[j].collection_name

(***************************************************************************)
(* C2.  No two organization documents, active or soft-deleted, hold names  *)
(* that are equal ignoring letter case.                                    *)
(***************************************************************************)
C2_UniqueNames ==
  \A i, j \in OrgIndexes :
    i # j => ~SameNameIgnoringCase(organizations[i].name, organizations[j].name)

\* a create or a rename was refused because another document holds the name in
\* another letter case
C2_Witness ==
  \E p \in SeqProcs, i \in OrgIndexes :
    /\ pc[p] = "done" /\ result[p].status = 409
    /\ LET requested == IF loc[p].op = "create" THEN loc[p].name
                                                ELSE loc[p].update_data.name
       IN  /\ requested # organizations[i].name
           /\ SameNameIgnoringCase(requested, organizations[i].name)
           /\ organizations[i].id # loc[p].org_id

(***************************************************************************)
(* C3.  Two create calls that overlap and whose names are equal ignoring   *)
(* case or sanitize to the same collection name do not both succeed, and   *)
(* when both have returned no two non-deleted organizations share a name   *)
(* or a collection name.  The code breaks it: no unique index exists, so   *)
(* both pass the checks before either inserts.                             *)
(***************************************************************************)
C3_LostRaceDetected ==
  ( /\ \A p \in Procs : pc[p] = "done" /\ loc[p].op = "create"
    /\ \/ SameNameIgnoringCase(loc[1].name, loc[2].name)
       \/ generate_collection_name(loc[1].name) = generate_collection_name(loc[2].name) )
  => /\ ~(result[1].status = 201 /\ result[2].status = 201)
     /\ \A i, j \in ActiveIndexes :
          (i # j /\ organizations[i].id \in {loc[1].organization.id, loc[2].organization.id}
                 /\ organizations[j].id \in {loc[1].organization.id, loc[2].organization.id})
          => /\ ~SameNameIgnoringCase(organizations[i].name, organizations[j].name)
             /\ organizations[i].collection_name # organizations[j].collection_name

(***************************************************************************)
(* C4.  When create returns success, the store holds a non-deleted         *)
(* organization O with collection_name = sanitize(name), that collection   *)
(* holds an admin A with the requested email and organization_id = O.id,   *)
(* O.admin_id = A.id is not empty, and the returned organization carries   *)
(* that admin_id.                                                          *)
(***************************************************************************)
C4_CreateProvisions ==
  \A p \in SeqProcs :
    Returned(p, "create", 201) =>
      LET O == find_by_id(result[p].organization.id, FALSE)
      IN  /\ O.id # NoId
          /\ O.name = loc[p].name
          /\ O.collection_name = generate_collection_name(loc[p].name)
          /\ O.admin_id # NoId
          /\ result[p].organization.admin_id = O.admin_id
          /\ \E A \in documents(O.collection_name) :
               /\ A.id = O.admin_id
               /\ A.email = loc[p].email
               /\ A.organization_id = O.id
               /\ verify_password(loc[p].password, A.hashed_password)

\* a create has returned 201
C4_Witness == \E p \in SeqProcs : Returned(p, "create", 201)

(***************************************************************************)
(* C5.  When the admin insert or the admin_id backfill of a create fails   *)
(* and the compensation runs through, the master collection holds no       *)
(* document of the organization and its collection is not listed.          *)
(***************************************************************************)
\* the create of worker p failed after the metadata insert and was compensated
CreateCompensated(p) ==
  /\ Returned(p, "create", 500)
  /\ result[p].detail = "Failed to create organization"
  /\ loc[p].exc \in {"admin_repo.create", "org_repo.update"}
  /\ loc[p].rollback_exc = "none"

C5_CreateCompensation ==
  \A p \in SeqProcs :
    CreateCompensated(p) =>
      /\ find_by_id(loc[p].organization.id, TRUE).id = NoId
      /\ \A i \in OrgIndexes : organizations[i].name # loc[p].name
      /\ loc[p].collection_name \notin list_collection_names

\* the backfill failed after the admin was inserted, and the rollback ran
C5_Witness ==
  \E p \in SeqProcs :
    /\ CreateCompensated(p)
    /\ loc[p].exc = "org_repo.update"
    /\ loc[p].admin.id # NoId

(***************************************************************************)
(* C6.  After a successful rename from A to B with another collection      *)
(* name, every document of collection sanitize(A) before the rename is in  *)
(* collection sanitize(B), the organization has name B and collection_name *)
(* sanitize(B), and sanitize(A) is not listed any more.                    *)
(***************************************************************************)
\* the call of worker p was a rename that returned success and changed the key
RenamedAcrossKeys(p) ==
  /\ Returned(p, "update", 200)
  /\ loc[p].update_data.name # NoName
  /\ loc[p].update_data.name # snap_org(p, loc[p].org_id).name
  /\ generate_collection_name(loc[p].update_data.name)
       # generate_collection_name(snap_org(p, loc[p].org_id).name)

C6_RenameMigrates ==
  \A p \in SeqProcs :
    RenamedAcrossKeys(p) =>
      LET A == snap_org(p, loc[p].org_id).name
          B == loc[p].update_data.name
          O == find_by_id(loc[p].org_id, FALSE)
      IN  /\ snap_documents(p, generate_collection_name(A))
               \subseteq documents(generate_collection_name(B))
          /\ O.name = B
          /\ O.collection_name = generate_collection_name(B)
          /\ result[p].organization = O
          /\ generate_collection_name(A) \notin list_collection_names

\* a rename across keys succeeded for an organization whose collection held
\* its admin
C6_Witness ==
  \E p \in SeqProcs :
    /\ RenamedAcrossKeys(p)
    /\ \E d \in snap_documents(p,
                  generate_collection_name(snap_org(p, loc[p].org_id).name)) :
         d.id = snap_org(p, loc[p].org_id).admin_id

(***************************************************************************)
(* C7.  When the copy or the metadata update of a rename fails (and the    *)
(* rollback runs through), the new collection does not exist if the rename *)
(* created it, the old collection holds exactly the documents it held      *)
(* before, name and collection_name are unchanged and the response is 500. *)
(* The code breaks it for a new name that sanitizes to the old collection  *)
(* name: the copy hits DuplicateKeyError and the rollback drops the        *)
(* organization's own collection.                                          *)
(***************************************************************************)
C7_RenameRollback ==
  \A p \in SeqProcs :
    ( /\ pc[p] = "done" /\ loc[p].op = "update"
      /\ loc[p].exc \in {"DuplicateKeyError", "insert_one", "org_repo.update"}
      /\ loc[p].rollback_exc = "none" )
    => LET before == snap_org(p, loc[p].org_id)
           O == find_by_id(loc[p].org_id, TRUE)
       IN  /\ result[p].status = 500
           /\ (loc[p].new_collection_name \notin DOMAIN snap[p].collections
                 => loc[p].new_collection_name \notin list_collection_names)
           /\ documents(loc[p].old_collection_name)
                = snap_documents(p, loc[p].old_collection_name)
           /\ O.name = before.name
           /\ O.collection_name = before.collection_name

(***************************************************************************)
(* C8.  After delete returns success, the organization's collection is not *)
(* listed, its document is still in the master collection, and the result  *)
(* carries the organization id, the deleting admin id and                  *)
(* audit_retained = true.                                                  *)
(***************************************************************************)
C8_DeleteDropsPartition ==
  \A p \in SeqProcs :
    Returned(p, "delete", 200) =>
      /\ snap_org(p, loc[p].org_id).collection_name \notin list_collection_names
      /\ loc[p].organization.collection_name \notin list_collection_names
      /\ find_by_id(loc[p].org_id, TRUE).id = loc[p].org_id
      /\ result[p].organization_id = loc[p].org_id
      /\ result[p].deleted_by = loc[p].admin_id
      /\ result[p].audit_retained

\* a delete succeeded for an organization whose collection existed
C8_Witness ==
  \E p \in SeqProcs :
    /\ Returned(p, "delete", 200)
    /\ snap_org(p, loc[p].org_id).collection_name \in DOMAIN snap[p].collections

(***************************************************************************)
(* C9.  After a successful delete of O by admin r, no page of list holds   *)
(* O, get(O.id) finds nothing (404), and find_by_id(O.id, True) returns O  *)
(* with is_deleted, deleted_at set and deleted_by = r = O.admin_id.        *)
(***************************************************************************)
C9_SoftDeleteAudit ==
  \A p \in SeqProcs :
    Returned(p, "delete", 200) =>
      LET O == find_by_id(loc[p].org_id, TRUE)
      IN  /\ \A skip \in 0..Len(organizations), limit \in 1..(Len(organizations) + 1) :
               \A k \in 1..Len(list_organizations(skip, limit)) :
                 list_organizations(skip, limit)[k].id # O.id
          /\ get_organization(O.id).id = NoId
          /\ O.id = loc[p].org_id
          /\ O.is_deleted
          /\ O.deleted_at # NoTime
          /\ O.deleted_by = loc[p].admin_id
          /\ O.deleted_by = O.admin_id

\* a delete succeeded while another organization stays listed
C9_Witness ==
  \E p \in SeqProcs :
    /\ Returned(p, "delete", 200)
    /\ Len(list_organizations(0, 1)) = 1

(***************************************************************************)
(* C10.  A delete of an organization that is already soft-deleted returns  *)
(* 404 and leaves the master collection and every dynamic collection as    *)
(* they were (deleted_at and deleted_by of the first delete stay).         *)
(***************************************************************************)
\* the call of worker p was a delete of a document that was soft-deleted already
DeletedAgain(p) ==
  /\ pc[p] = "done" /\ loc[p].op = "delete"
  /\ snap_org(p, loc[p].org_id).id # NoId
  /\ snap_org(p, loc[p].org_id).is_deleted

C10_DeleteTwice ==
  \A p \in SeqProcs :
    DeletedAgain(p) =>
      /\ result[p].status = 404
      /\ StoreUnchanged(p)

\* an organization that its admin deleted is deleted a second time
C10_Witness ==
  \E p \in SeqProcs :
    /\ DeletedAgain(p)
    /\ snap_org(p, loc[p].org_id).deleted_by = snap_org(p, loc[p].org_id).admin_id
    /\ snap_org(p, loc[p].org_id).deleted_at # NoTime

(***************************************************************************)
(* C11.  Deleted is terminal: a document with is_deleted = true is still   *)
(* in the master collection after every step of every create, update,      *)
(* delete and authenticate call, however the calls interleave, with        *)
(* is_deleted = true and the same name, collection_name, admin_id,         *)
(* deleted_at and deleted_by.                                              *)
(***************************************************************************)
\* the audit fields of document d are those of document o
SameAuditRecord(o, d) ==
  /\ o.id = d.id
  /\ o.is_deleted = d.is_deleted
  /\ o.name = d.name
  /\ o.collection_name = d.collection_name
  /\ o.admin_id = d.admin_id
  /\ o.deleted_at = d.deleted_at
  /\ o.deleted_by = d.deleted_by

C11_DeletedIsTerminal ==
  [][ \A i \in OrgIndexes :
        organizations[i].is_deleted =>
          \E j \in 1..Len(organizations') :
            SameAuditRecord(organizations'[j], organizations[i]) ]_vars

\* a call that started after an organization was deleted has written to the
\* master collection, and the deleted document is there
C11_Witness ==
  \E p \in Procs, i \in OrgIndexes :
    /\ organizations[i].is_deleted
    /\ snap_org(p, organizations[i].id).is_deleted
    /\ organizations # snap[p].organizations

(***************************************************************************)
(* C12.  A create whose name equals, ignoring case, the name of a document *)
(* of the master collection returns 409, with the "exists" detail when the *)
(* holder is active and the "archived" detail when it is soft-deleted, and *)
(* leaves the master collection and every dynamic collection as they were. *)
(***************************************************************************)
\* the positions of the documents that held the name when the call of p started
SnapIndexes(p) == 1..Len(snap[p].organizations)
SnapHolders(p, name) ==
  { i \in SnapIndexes(p) : SameNameIgnoringCase(snap[p].organizations[i].name, name) }

C12_CreateNameConflict ==
  \A p \in SeqProcs :
    (pc[p] = "done" /\ loc[p].op = "create") =>
      \A i \in SnapHolders(p, loc[p].name) :
        /\ result[p].status = 409
        /\ result[p].detail = IF snap[p].organizations[i].is_deleted
                                THEN "name archived" ELSE "name exists"
        /\ StoreUnchanged(p)

\* a create asked for the name of a soft-deleted organization in another case
C12_Witness ==
  \E p \in SeqProcs :
    /\ pc[p] = "done" /\ loc[p].op = "create"
    /\ \E i \in SnapHolders(p, loc[p].name) :
         /\ snap[p].organizations[i].is_deleted
         /\ snap[p].organizations[i].name # loc[p].name

(***************************************************************************)
(* C13.  With an active organization N1 as its create left it (collection  *)
(* sanitize(N1) listed and holding its admin), a create of a name N2 that  *)
(* differs from N1 also ignoring case and sanitizes to the same collection *)
(* name returns 409 and leaves the document and the collection of N1, and  *)
(* the rest of the store, as they were.                                    *)
(***************************************************************************)
\* document o is an active organization provisioned as create leaves it
ProvisionedIn(o, colls) ==
  /\ ~o.is_deleted
  /\ o.collection_name = generate_collection_name(o.name)
  /\ o.collection_name \in DOMAIN colls
  /\ o.admin_id \in doc_ids(colls[o.collection_name])

\* the positions of the provisioned organizations whose name differs from the
\* requested one and sanitizes to the same collection name
SnapColliders(p, name) ==
  { i \in SnapIndexes(p) :
      LET o == snap[p].organizations[i]
      IN  /\ ProvisionedIn(o, snap[p].collections)
          /\ ~SameNameIgnoringCase(o.name, name)
          /\ generate_collection_name(o.name) = generate_collection_name(name) }

OwnerRename(p) ==
  /\ pc[p] = "done" /\ loc[p].op = "update"
  /\ snap_org(p, loc[p].org_id).id # NoId
  /\ ~snap_org(p, loc[p].org_id).is_deleted
  /\ snap_org(p, loc[p].org_id).admin_id = loc[p].admin_id
  /\ loc[p].update_data.name # NoName
  /\ loc[p].update_data.name # snap_org(p, loc[p].org_id).name

\* the documents of other organizations that held the new name
OtherHolders(p) ==
  { i \in SnapHolders(p, loc[p].update_data.name) :
      snap[p].organizations[i].id # loc[p].org_id }

C14_RenameNameConflict ==
  \A p \in SeqProcs :
    (OwnerRename(p) /\ OtherHolders(p) # {}) =>
      /\ result[p].status = 409
      /\ StoreUnchanged(p)

\* a rename asked for the name of a soft-deleted organization in another case
C14_Witness ==
  \E p \in SeqProcs :
    /\ OwnerRename(p)
    /\ \E i \in OtherHolders(p) :
         /\ snap[p].organizations[i].is_deleted
         /\ snap[p].organizations[i].name # loc[p].update_data.name

(***************************************************************************)
(* C15.  An update or a delete of an active organization by an admin who   *)
(* is not its admin returns 403 and leaves the master collection and every *)
(* dynamic collection as they were; an update or a delete with an id that  *)
(* no active organization has returns 404, whoever asks.                   *)
(* The code breaks the second half for an id that is no ObjectId string:   *)
(* ObjectId(org_id) raises InvalidId and the response is a bare 500.       *)
(***************************************************************************)
C15_OwnershipAndNotFound ==
  \A p \in SeqProcs :
    (pc[p] = "done" /\ loc[p].op \in {"update", "delete"}) =>
      LET o == snap_org(p, loc[p].org_id)
      IN  IF o.id # NoId /\ ~o.is_deleted
            THEN o.admin_id # loc[p].admin_id =>
                   (result[p].status = 403 /\ StoreUnchanged(p))
            ELSE result[p].status = 404 /\ StoreUnchanged(p)

(***************************************************************************)
(* C16.  An update by the owner without a name, or with the current name,  *)
(* returns 200 and changes the patched description and updated_at of the   *)
(* organization only: its other fields, the other documents, the listed    *)
(* collections and their documents are as they were.                       *)
(***************************************************************************)
\* the call of worker p was an update by the owner of an active organization
\* that asked for no other name
OwnerSimpleUpdate(p) ==
  /\ pc[p] = "done" /\ loc[p].op = "update"
  /\ snap_org(p, loc[p].org_id).id # NoId
  /\ ~snap_org(p, loc[p].org_id).is_deleted
  /\ snap_org(p, loc[p].org_id).admin_id = loc[p].admin_id
  /\ loc[p].update_data.name \in {NoName, snap_org(p, loc[p].org_id).name}

C16_SimpleUpdateFrame ==
  \A p \in SeqProcs :
    OwnerSimpleUpdate(p) =>
      /\ result[p].status = 200
      /\ collections = snap[p].collections
      /\ Len(organizations) = Len(snap[p].organizations)
      /\ \A i \in OrgIndexes :
           LET before == snap[p].organizations[i]
               after  == organizations[i]
               patch  == loc[p].update_data
           IN  IF before.id = loc[p].org_id
                 THEN /\ after = [before EXCEPT
                                    !.description = IF patch.description # NoStr
                                                      THEN patch.description ELSE @,
                                    !.updated_at = after.updated_at]
                      /\ after.updated_at >= before.updated_at
                      /\ result[p].organization = after
                 ELSE after = before

\* the owner patched the description and sent the current name along
C16_Witness ==
  \E p \in SeqProcs :
    /\ OwnerSimpleUpdate(p)
    /\ loc[p].update_data.name # NoName
    /\ loc[p].update_data.description # NoStr
    /\ find_by_id(loc[p].org_id, FALSE).description = loc[p].update_data.description

(***************************************************************************)
(* C17.  When the metadata insert, the admin insert or the admin_id        *)
(* backfill of a create raises (and no compensating store call raises),    *)
(* the response is 500 "Failed to create organization" with the exception  *)
(* that was caught.                                                        *)
(* The code breaks it for the metadata insert: the handler reads the local *)
(* "organization" before any assignment, and the UnboundLocalError leaves  *)
(* the service as a bare 500.                                              *)
(***************************************************************************)
C17_CreateFailureSurfaced ==
  \A p \in SeqProcs :
    ( /\ pc[p] = "done" /\ loc[p].op = "create"
      /\ loc[p].exc \in {"org_repo.create", "admin_repo.create", "org_repo.update"}
      /\ loc[p].rollback_exc \in {"none", "UnboundLocalError"} )
    => /\ result[p].status = 500
       /\ result[p].detail = "Failed to create organization"
       /\ result[p].cause = loc[p].exc

(***************************************************************************)
(* C18.  When a compensating store call of a failed create or a failed     *)
(* rename raises (hard_delete, list_collection_names or drop_collection),  *)
(* the response names both the failure that started the rollback and the   *)
(* failure of the compensation.                                            *)
(* The code breaks it: the except blocks do not guard their own store      *)
(* calls, so the second exception leaves the service as a bare 500 that    *)
(* names neither.                                                          *)
(***************************************************************************)
C18_CompensationFailureReported ==
  \A p \in SeqProcs :
    ( /\ pc[p] = "done" /\ loc[p].op \in {"create", "update"}
      /\ loc[p].rollback_exc
           \in {"org_repo.hard_delete", "list_collection_names", "drop_collection"} )
    => /\ result[p].status = 500
       /\ result[p].cause = loc[p].exc
       /\ result[p].rollback_cause = loc[p].rollback_exc

(***************************************************************************)
(* C19.  A login with an address that an admin of an active organization   *)
(* has (ignoring case) and a password that is not that admin's, and a      *)
(* login with an address that no admin of an active organization has, get  *)
(* the same response: 401 "Incorrect email or password".                   *)
(* The code breaks it: the address is used as an unescaped regular         *)
(* expression, so an address nobody has can match the address of an admin  *)
(* and, with that admin's password, the login succeeds.                    *)
(***************************************************************************)
\* the admin documents of the active organizations that have the address,
\* ignoring case
ActiveAdmins ==
  UNION { documents(organizations[i].collection_name) : i \in ActiveIndexes }
AdminsWithEmail(email) ==
  { d \in ActiveAdmins : SameNameIgnoringCase(d.email, email) }

C19_UniformRejection ==
  \A p \in SeqProcs :
    ( /\ pc[p] = "done" /\ loc[p].op = "authenticate"
      /\ \A d \in AdminsWithEmail(loc[p].email) :
           ~verify_password(loc[p].password, d.hashed_password) )
    => result[p] = IncorrectCredentials

(***************************************************************************)
(* C20.  When a login succeeds, an active organization O has in its        *)
(* collection an admin A whose address is the given one ignoring case,     *)
(* whose hash verifies the password and whose organization_id is O.id, and *)
(* the response and the token carry A.id and O.id.                         *)
(* The code breaks it: the address is used as an unescaped regular         *)
(* expression, so the admin found can have another address.                *)
(***************************************************************************)
C20_TokenBinding ==
  \A p \in SeqProcs :
    Returned(p, "authenticate", 200) =>
      \E i \in ActiveIndexes :
        LET O == organizations[i]
        IN  \E A \in documents(O.collection_name) :
              /\ SameNameIgnoringCase(A.email, loc[p].email)
              /\ verify_password(loc[p].password, A.hashed_password)
              /\ A.organization_id = O.id
              /\ result[p].admin_id = A.id
              /\ result[p].organization_id = O.id
              /\ result[p].access_token.admin_id = A.id
              /\ result[p].access_token.sub = A.id
              /\ result[p].access_token.organization_id = O.id

(***************************************************************************)
(* C21.  _generate_collection_name is a function of the name alone and is  *)
(* defined for every name; its value is "org_" followed by a string over   *)
(* [a-z0-9_] that has no two underscores in a row and no underscore at     *)
(* either end, and that is empty exactly when the lower-cased name has no   *)
(* character in [a-z0-9]; two names that differ only in the case of their  *)
(* letters or in the characters outside [a-z0-9] they use at the same      *)
(* places have the same value; 'Acme Corp' gives 'org_acme_corp'.          *)
(***************************************************************************)
SanitizeDone(p) == pc[p] = "done" /\ loc[p].op = "sanitize"

\* [a-z0-9]
AlnumKeyChars == KeyChars \ {"_"}

\* the same letters and digits ignoring case, separators at the same places
same_key_class(n1, n2) ==
  /\ Len(n1) = Len(n2)
  /\ \A i \in 1..Len(n1) :
       \/ LowerChar(n1[i]) = LowerChar(n2[i])
       \/ /\ LowerChar(n1[i]) \notin AlnumKeyChars
          /\ LowerChar(n2[i]) \notin AlnumKeyChars

HasItsPartition(o) ==
  /\ o.collection_name \in list_collection_names
  /\ \E d \in documents(o.collection_name) : d.id = o.admin_id

C22_PartitionInvariant ==
  Quiescent =>
    \A i \in ActiveIndexes :
      organizations[i].admin_id # NoId => HasItsPartition(organizations[i])

(***************************************************************************)
(* C23.  A rename by the owner to a name that is not the current name but  *)
(* has the same collection name (another letter case, a hyphen for a       *)
(* space), in which no store call raises an injected exception, returns    *)
(* 200, and afterwards the collection is listed and holds every document   *)
(* it held when the call started.                                          *)
(* The code breaks it: the copy inserts the documents of the collection    *)
(* into the collection itself, insert_one raises DuplicateKeyError and the *)
(* except block drops the collection.                                      *)
(***************************************************************************)
SameKeyRename(p) ==
  /\ pc[p] = "done" /\ loc[p].op = "update"
  /\ loc[p].new_collection_name # NoName
  /\ loc[p].new_collection_name = loc[p].old_collection_name
  /\ loc[p].old_collection_name \in DOMAIN snap[p].collections
  /\ loc[p].exc \in {"none", "DuplicateKeyError"}
  /\ loc[p].rollback_exc = "none"

C23_SameKeyRenameKeepsData ==
  \A p \in SeqProcs :
    SameKeyRename(p) =>
      /\ result[p].status = 200
      /\ loc[p].old_collection_name \in list_collection_names
      /\ snap_documents(p, loc[p].old_collection_name)
           \subseteq documents(loc[p].old_collection_name)

(***************************************************************************)
(* C24.  When calls run one at a time, between the calls every admin       *)
(* document in the collection that an active organization names has that   *)
(* organization's id as organization_id, and no collection holds admin     *)
(* documents of two organizations.                                         *)
(* The code breaks it: a rename checks that no organization has the new    *)
(* name, not that the new collection name is free, and copies the admin    *)
(* documents into the collection of another organization.                  *)
(***************************************************************************)
C24_AdminIsolation ==
  Quiescent =>
    /\ \A i \in ActiveIndexes :
         \A d \in documents(organizations[i].collection_name) :
           d.organization_id = organizations[i].id
    /\ \A n \in list_collection_names :
         \A d1, d2 \in documents(n) : d1.organization_id = d2.organization_id

(***************************************************************************)
(* C25.  Two creates with different names and the same collection name run *)
(* in parallel, interleaved at their store calls: when one has failed and  *)
(* run its rollback and the other has returned 201, the organization of    *)
(* the successful one is in the master collection and its admin document   *)
(* is in the collection.                                                   *)
(* The code breaks it: both creates pass the collection check before       *)
(* either inserts, and the rollback of the failed one drops the collection *)
(* by name, with the admin document of the other in it.                    *)
(***************************************************************************)
C25_RollbackSparesOthers ==
  \A p, q \in Procs :
    ( /\ p # q
      /\ CreateCompensated(p)
      /\ Returned(q, "create", 201)
      /\ loc[p].name # loc[q].name
      /\ loc[p].collection_name = loc[q].collection_name )
    => /\ find_by_id(loc[q].organization.id, FALSE).id # NoId
       /\ loc[q].admin \in documents(loc[q].collection_name)

(***************************************************************************)
(* C26.  Two deletes of the same active organization by its admin run in   *)
(* parallel, interleaved at their store calls, and no store call raises:   *)
(* one returns 200 and the other 404, the organization is soft-deleted,    *)
(* and the call that got 404 has made no store call after its soft_delete  *)
(* (step 2, the listing and the drop of the collection, is run by the      *)
(* other call only).                                                       *)
(***************************************************************************)
\* the call of p is a delete by the admin of an organization that was active
\* when the call started, and none of its store calls raised
OwnerDelete(p) ==
  /\ pc[p] = "done" /\ loc[p].op = "delete"
  /\ snap_org(p, loc[p].org_id).id # NoId
  /\ ~snap_org(p, loc[p].org_id).is_deleted
  /\ loc[p].admin_id = snap_org(p, loc[p].org_id).admin_id
  /\ loc[p].exc = "none"

\* p and q have deleted the same organization in parallel
ParallelDeletes(p, q) ==
  /\ p # q
  /\ OwnerDelete(p) /\ OwnerDelete(q)
  /\ loc[p].org_id = loc[q].org_id

C26_DeleteRace ==
  \A p, q \in Procs :
    ParallelDeletes(p, q) =>
      /\ find_by_id(loc[p].org_id, TRUE).is_deleted
      /\ \E w \in {p, q} :
           LET l == CHOOSE x \in {p, q} : x # w
           IN  /\ result[w].status = 200
               /\ loc[w].collection_name = loc[w].organization.collection_name
               /\ result[l].status = 404
               /\ loc[l].collection_name = NoName
      /\ loc[p].organization.collection_name \notin list_collection_names

\* the second delete loaded the organization before the first soft-deleted it
\* and was refused by soft_delete, the first dropped the collection
C26_Witness ==
  \E p, q \in Procs :
    /\ ParallelDeletes(p, q)
    /\ result[p].status = 200
    /\ result[q].detail = "Organization not found or already deleted"
    /\ loc[p].organization.collection_name \in DOMAIN snap[p].collections
    /\ loc[p].organization.collection_name \notin list_collection_names

(***************************************************************************)
(* C27.  A rename and a delete of the same organization by its admin run   *)
(* in parallel, interleaved at their store calls, and no store call        *)
(* raises: once both have returned and the organization is soft-deleted,   *)
(* neither the old collection nor the new collection of the rename is      *)
(* listed.                                                                 *)
(* The code breaks it: the delete drops the collection named by the        *)
(* document it loaded, the rename creates the new collection by copying,   *)
(* and nothing drops the new collection when the organization is deleted   *)
(* under the rename.                                                       *)
(***************************************************************************)
\* the call of p is a rename by the admin that got past the name check, of an
\* organization that was active when the call started; no store call raised
OwnerMigration(p) ==
  /\ pc[p] = "done" /\ loc[p].op = "update"
  /\ loc[p].new_collection_name # NoName
  /\ ~snap_org(p, loc[p].org_id).is_deleted
  /\ loc[p].exc = "none"

C27_RenameDeleteRace ==
  \A p, q \in Procs :
    ( /\ p # q
      /\ OwnerMigration(p)
      /\ OwnerDelete(q)
      /\ loc[p].org_id = loc[q].org_id
      /\ find_by_id(loc[p].org_id, TRUE).is_deleted )
    => /\ loc[p].old_collection_name \notin list_collection_names
       /\ loc[p].new_collection_name \notin list_collection_names

(***************************************************************************)
(* C28.  An update by the admin (simple or rename) whose organization is   *)
(* soft-deleted by a parallel delete after the update loaded it and before *)
(* its org_repo.update returns 404, and on the rename path the call makes  *)
(* no change to the collections after that org_repo.update.                *)
(* The code breaks it on the rename path: the None that org_repo.update    *)
(* returns is not looked at, the old collection is dropped and None is     *)
(* returned to the router, which answers with a bare 500.                  *)
(***************************************************************************)
\* org_repo.update of the call of p found no active document although the
\* call had loaded one
UpdateFoundNone(p) ==
  /\ loc[p].op = "update"
  /\ loc[p].admin_id # NoId
  /\ loc[p].organization.id = NoId
  /\ loc[p].exc = "none"

C28_UpdateOfDeleted ==
  /\ [](\A p \in Procs :
         (pc[p] = "done" /\ UpdateFoundNone(p)) => result[p].status = 404)
  /\ [][\A p \in Procs :
          (UpdateFoundNone(p) /\ pc'[p] # pc[p]) => collections' = collections]_vars

(***************************************************************************)
(* C29.  After a delete has returned, with 200 or with 500 because a store *)
(* call of step 2 raised: when the organization is soft-deleted, the       *)
(* collection that it names is not listed.                                 *)
(* The code breaks it: soft_delete runs first and is not undone when       *)
(* list_collection_names or drop_collection raises.                        *)
(***************************************************************************)
C29_DeleteLeavesNoPartition ==
  \A p \in SeqProcs :
    ( /\ pc[p] = "done" /\ loc[p].op = "delete"
      /\ ~snap_org(p, loc[p].org_id).is_deleted
      /\ find_by_id(loc[p].org_id, TRUE).is_deleted )
    => find_by_id(loc[p].org_id, TRUE).collection_name \notin list_collection_names

(***************************************************************************)
(* C30.  A login with the address and the password of the admin of an      *)
(* active organization O, whose admin document is in the collection O      *)
(* names and whose address no admin of another active organization has,    *)
(* returns 200 with O.id and O.admin_id: whatever creates, renames and     *)
(* deletes ran before.                                                     *)
(* The code breaks it: the scan takes the first active organization whose  *)
(* collection has a document that the address matches as a regular         *)
(* expression, which can be the admin of another organization; and after a *)
(* rename of another organization into the collection of O the document    *)
(* found can be that of O while the organization scanned is the other.     *)
(***************************************************************************)
\* the admin document of organization o in the collection o names
OwnAdmins(o) ==
  { d \in documents(o.collection_name) :
      d.id = o.admin_id /\ d.organization_id = o.id }

\* no admin of another active organization has the address of admin
AddressIsUnique(o, admin) ==
  \A j \in ActiveIndexes :
    organizations[j].id # o.id =>
      \A d \in OwnAdmins(organizations[j]) :
        ~SameNameIgnoringCase(d.email, admin.email)

C30_LoginAfterCreate ==
  \A p \in SeqProcs :
    (pc[p] = "done" /\ loc[p].op = "authenticate") =>
      \A i \in ActiveIndexes :
        \A A \in OwnAdmins(organizations[i]) :
          ( /\ A.email = loc[p].email
            /\ verify_password(loc[p].password, A.hashed_password)
            /\ AddressIsUnique(organizations[i], A) )
          => /\ result[p].status = 200
             /\ result[p].organization_id = organizations[i].id
             /\ result[p].admin_id = organizations[i].admin_id

(***************************************************************************)
(* C31.  A login decides on the first active organization, in listing      *)
(* order, whose collection holds an admin with the given address: when the *)
(* password verifies against no such admin of that organization, the       *)
(* response is 401 and no organization after that one is probed, also when *)
(* a later organization has an admin with the same address whose password  *)
(* verifies.                                                               *)
(* The code breaks it: the address is matched as an unescaped regular      *)
(* expression, so the login can decide on an earlier organization whose    *)
(* admin has another address, and succeed there.                           *)
(***************************************************************************)
\* the admins with the given address in the collection organization o names
MatchingAdmins(o, email) ==
  { d \in documents(o.collection_name) : SameNameIgnoringCase(d.email, email) }

\* positions of the active organizations whose collection has the address
HolderIndexes(email) ==
  { i \in ActiveIndexes : MatchingAdmins(organizations[i], email) # {} }

\* the first of them in listing order
FirstHolder(email) ==
  CHOOSE i \in HolderIndexes(email) : \A j \in HolderIndexes(email) : i <= j

C31_FirstMatchDecides ==
  \A p \in SeqProcs :
    ( /\ pc[p] = "done" /\ loc[p].op = "authenticate"
      /\ HolderIndexes(loc[p].email) # {}
      /\ \A d \in MatchingAdmins(organizations[FirstHolder(loc[p].email)],
                                  loc[p].email) :
           ~verify_password(loc[p].password, d.hashed_password) )
    => /\ result[p].status = 401
       /\ \E i \in ActiveIndexes :
            /\ organizations[i].id = loc[p].organization.id
            /\ i <= FirstHolder(loc[p].email)

(***************************************************************************)
(* C32.  When a delete by the admin of organization O has returned 200: a  *)
(* login with the address and the password that the admin of O had is      *)
(* answered 401, provided no active organization has an admin with that    *)
(* address in its collection.  The login is the whole authenticate_admin   *)
(* call, made in the state the delete leaves; the admin that the delete    *)
(* dropped is read from the store as it was when the delete started.       *)
(* The code breaks it: the address is matched as an unescaped regular      *)
(* expression, so the login succeeds as the admin of an active             *)
(* organization whose address is another one.                              *)
(***************************************************************************)
\* the response of authenticate_admin for one admin document that
\* find_by_email returned in the collection of org
login_response(admin, org, password) ==
  IF ~verify_password(password, admin.hashed_password)
    THEN IncorrectCredentials
    ELSE IF admin.organization_id # org.id
      THEN OrganizationMismatch
      ELSE TokenResponse(admin, org)

\* AuthService.authenticate_admin as one call: the responses it can return
\* (find_one returns any one of the documents that match)
authenticate_admin(email, password) ==
  LET orgs == find_all(0, 1000, FALSE)
      hits == { i \in 1..Len(orgs) :
                  find_by_email(orgs[i].collection_name, email) # {} }
  IN  IF hits = {}
        THEN {IncorrectCredentials}
        ELSE LET first == CHOOSE i \in hits : \A j \in hits : i <= j
             IN  { login_response(admin, orgs[first], password) :
                     admin \in find_by_email(orgs[first].collection_name, email) }

\* the admin documents of organization O in the collection it named when the
\* delete of p started
DroppedAdmins(p) ==
  LET O == snap_org(p, loc[p].org_id)
  IN  { d \in snap_documents(p, O.collection_name) :
          d.id = O.admin_id /\ d.organization_id = O.id }

C32_LoginAfterDelete ==
  \A p \in SeqProcs :
    (OwnerDelete(p) /\ result[p].status = 200) =>
      \A d \in DroppedAdmins(p), password \in LoginPasswords :
        ( /\ verify_password(password, d.hashed_password)
          /\ HolderIndexes(d.email) = {} )
        => \A r \in authenticate_admin(d.email, password) : r.status = 401

====
